---- MODULE Spec2Model ----
(***************************************************************************)
(* CRUD handlers of src/app.py over the four tables Venue, Schedule,       *)
(* Section and Event (FastAPI + SQLModel on SQLite).                       *)
(*                                                                         *)
(* Columns modelled, one per kind of column the tables declare:            *)
(*   Venue    : id, name (NOT NULL str), url (HttpUrlType, nullable)       *)
(*   Schedule : id, title (NOT NULL str), venue_url (HttpUrlType, nullable)*)
(*   Section  : id, status (nullable str, no default), schedule_id         *)
(*              (nullable FK)                                              *)
(*   Event    : id, location (NOT NULL str), section_id (nullable FK)      *)
(* Values: Python None is <<"None">>, a str is <<"str", text>>, an HttpUrl *)
(* object is <<"HttpUrl", text>>; integer columns hold integers, with NoId *)
(* standing for None.                                                      *)
(***************************************************************************)
EXTENDS Integers, Sequences, FiniteSets, TLC

\* ---------------------------------------------------------------- bounds
MaxId == 2      \* identifiers range over 1..MaxId
MaxRows == 2    \* rows stored over all four tables together
MaxLimit == 100 \* Query(default=100, le=100)

\* ---------------------------------------------------------------- values
None == <<"None">>
NoId == 0
PyStr(text) == <<"str", text>>
HttpUrl(text) == <<"HttpUrl", text>>
ValidationError == <<"ValidationError">>

Texts == {"a", "b"}
UrlTexts == {"http://h/"}
Ids == 1..MaxId

Entities == {"Venue", "Schedule", "Section", "Event"}

\* ---------------------------------------------------------------- schema
\* payload fields of the *Base classes
VenueBase == {"name", "url"}
ScheduleBase == {"title", "venue_url"}
SectionBase == {"status"}
EventBase == {"location", "section_id"}

Base(e) ==
    CASE e = "Venue" -> VenueBase
      [] e = "Schedule" -> ScheduleBase
      [] e = "Section" -> SectionBase
      [] e = "Event" -> EventBase

\* the table classes: the Base fields, id, and Section's own schedule_id
Venue == VenueBase \cup {"id"}
Schedule == ScheduleBase \cup {"id"}
Section == SectionBase \cup {"id", "schedule_id"}
Event == EventBase \cup {"id"}

Table(e) ==
    CASE e = "Venue" -> Venue
      [] e = "Schedule" -> Schedule
      [] e = "Section" -> Section
      [] e = "Event" -> Event

\* fields of the *Update classes
VenueUpdate == {"name", "url"}
ScheduleUpdate == {"title", "venue_url"}
SectionUpdate == {"id", "status"}
EventUpdate == {"location"}

UpdateModel(e) ==
    CASE e = "Venue" -> VenueUpdate
      [] e = "Schedule" -> ScheduleUpdate
      [] e = "Section" -> SectionUpdate
      [] e = "Event" -> EventUpdate

\* model_config = ConfigDict(extra='forbid') is set on three of the Base classes
ExtraForbid(e) == e \in {"Schedule", "Section", "Event"}

IntCols == {"id", "schedule_id", "section_id"}
UrlCols == {"url", "venue_url"}          \* sa_type=HttpUrlType
\* fields typed without Optional / None: the column is NOT NULL
NotNullCols == {"id", "name", "title", "location"}
\* fields without a default: a create payload must carry them
Required(e) ==
    CASE e = "Venue" -> {"name"}
      [] e = "Schedule" -> {"title"}
      [] e = "Section" -> {"status"}
      [] e = "Event" -> {"location"}

Null(c) == IF c \in IntCols THEN NoId ELSE None
\* every default in the models is None
Default(c) == Null(c)

\* ----------------------------------------------------------- HttpUrlType
\* str(value): the text of an HttpUrl, and "None" for None
process_bind_param(value) ==
    IF value = None THEN PyStr("None") ELSE PyStr(value[2])

\* HttpUrl(url=value): raises unless the text parses as an http(s) URL
process_result_value(value) ==
    IF value # None /\ value[2] \in UrlTexts THEN HttpUrl(value[2])
    ELSE ValidationError

\* ----------------------------------------------------------------- state
VARIABLES
    db,      \* db[e]: the rows of table e, each a function over Table(e)
    resp,    \* the request being answered and its response, or Idle
    tx,      \* tx[w]: the request threadpool worker w is running, step by step
    base     \* the store when the requests of tx were received

vars == <<db, resp, tx, base>>

Idle == [op |-> "idle"]

EmptyFn == [x \in {} |-> None]

\* ---------------------------------------------------------- ORM helpers
Max(S) == CHOOSE x \in S : \A y \in S : y <= x

\* SQLite rowid of an INSERT without id: 1, or the largest rowid plus one
NextRowid(rows) == IF rows = {} THEN 1 ELSE Max({r.id : r \in rows}) + 1

\* Event.model_validate(payload): payload fields, defaults for the rest, no id yet
model_validate(e, data) ==
    [c \in Table(e) \ {"id"} |-> IF c \in DOMAIN data THEN data[c] ELSE Default(c)]

\* bind parameters of an INSERT / UPDATE
BindCol(c, value) == IF c \in UrlCols THEN process_bind_param(value) ELSE value

\* result processing of a SELECTed row
ResultCol(c, value) == IF c \in UrlCols THEN process_result_value(value) ELSE value

Loaded(row) == [c \in DOMAIN row |-> ResultCol(c, row[c])]

\* whether result processing of the row raises
Loads(row) == \A c \in DOMAIN row \cap UrlCols : process_result_value(row[c]) # ValidationError

\* session.get(Model, id): the rows with that primary key (none or one)
session_get(rows, id) == {r \in rows : r.id = id}

TotalRows(d) == Cardinality(d["Venue"]) + Cardinality(d["Schedule"])
                + Cardinality(d["Section"]) + Cardinality(d["Event"])

\* ------------------------------------------------------------- payloads
\* values a validated payload may carry for a field; status has no default,
\* so its null is a value of its own, while a null url or section_id is the
\* same as leaving the field out
PayloadVals(c) ==
    CASE c \in {"name", "title", "location"} -> {PyStr(t) : t \in Texts}
      [] c = "status" -> {None} \cup {PyStr(t) : t \in Texts}
      [] c \in UrlCols -> {HttpUrl(u) : u \in UrlTexts}
      [] c \in {"section_id", "schedule_id"} -> Ids
      [] c = "id" -> Ids

\* every field of an *Update class is declared "| None = None"
UpdateVals(c) == PayloadVals(c) \cup {Null(c)}

RECURSIVE PayloadsOver(_, _)
PayloadsOver(D, update) ==
    IF D = {} THEN {EmptyFn}
    ELSE LET c == CHOOSE x \in D : TRUE
         IN {f @@ (c :> v) : f \in PayloadsOver(D \ {c}, update),
                             v \in IF update THEN UpdateVals(c) ELSE PayloadVals(c)}

\* bodies accepted as EventCreate, SectionCreate, ...: required fields present
CreatePayloads(e) ==
    UNION {PayloadsOver(D, FALSE) : D \in {X \in SUBSET Base(e) : Required(e) \subseteq X}}

\* bodies accepted as EventUpdate, SectionUpdate, ...: any fields set
UpdatePayloads(e) == UNION {PayloadsOver(D, TRUE) : D \in SUBSET UpdateModel(e)}

Offsets == {-1, 0, 1}
Limits == {-1, 1, MaxLimit, MaxLimit + 1}

\* --------------------------------------------------------- response models
\* EventPublic, SectionPublic, SchedulePublic, VenuePublic: the Base fields and id
Public(e, obj) == [c \in Base(e) \cup {"id"} |-> obj[c]]

\* Relationship attributes of the table classes
Relationships(e) ==
    CASE e = "Venue" -> {}
      [] e = "Schedule" -> {"sections"}
      [] e = "Section" -> {"events", "schedule"}
      [] e = "Event" -> {"section"}

\* the field the get-by-id response model adds to the Public one
\* (EventPublicWithSection, SectionPublicWithEventes, SchedulePublicWithSections)
ResponseExtra(e) ==
    CASE e = "Venue" -> {}
      [] e = "Schedule" -> {"sections"}
      [] e = "Section" -> {"eventes"}
      [] e = "Event" -> {"section"}

\* lazy load of a relationship attribute of obj, as Public records
Related(d, obj, attr) ==
    CASE attr = "sections" ->
            {Public("Section", Loaded(r)) : r \in {x \in d["Section"] : x.schedule_id = obj.id}}
      [] attr = "events" ->
            {Public("Event", Loaded(r)) : r \in {x \in d["Event"] : x.section_id = obj.id}}
      [] attr = "section" ->
            {Public("Section", Loaded(r)) : r \in {x \in d["Section"] : x.id = obj.section_id}}
      [] attr = "schedule" ->
            {Public("Schedule", Loaded(r)) : r \in {x \in d["Schedule"] : x.id = obj.schedule_id}}

\* ---------------------------------------------------------------- handlers
Out(status, d, body, nullified) ==
    [status |-> status, db |-> d, body |-> body, nullified |-> nullified]

\* create_event / create_section / create_schedule / create_venue
Create(d, e, data, extra) ==
    IF extra /\ ExtraForbid(e) THEN Out(422, d, EmptyFn, {})
    ELSE LET obj == model_validate(e, data)
             id == NextRowid(d[e])
             row == [c \in Table(e) |-> IF c = "id" THEN id ELSE BindCol(c, obj[c])]
             d2 == [d EXCEPT ![e] = @ \cup {row}]          \* add, commit
         IN IF Loads(row)                                    \* refresh
            THEN Out(200, d2, Public(e, Loaded(row)), {})
            ELSE Out(500, d2, EmptyFn, {})

\* storage order of a table scan: ascending rowid
RECURSIVE ByRowid(_)
ByRowid(rows) ==
    IF rows = {} THEN <<>>
    ELSE LET m == CHOOSE r \in rows : \A x \in rows : r.id <= x.id
         IN <<m>> \o ByRowid(rows \ {m})

\* select(Model).offset(offset).limit(limit) on SQLite: a negative OFFSET is 0,
\* a negative LIMIT is no limit
select(rows, offset, limit) ==
    LET all == ByRowid(rows)
        off == IF offset < 0 THEN 0 ELSE offset
        last == IF limit < 0 \/ off + limit > Len(all) THEN Len(all) ELSE off + limit
    IN IF off + 1 > last THEN <<>> ELSE SubSeq(all, off + 1, last)

\* read_events / read_sections / read_schedules / read_venues
List(d, e, offset, limit) ==
    IF limit > MaxLimit THEN Out(422, d, <<>>, {})
    ELSE LET page == select(d[e], offset, limit)
         IN IF \A i \in 1..Len(page) : Loads(page[i])
            THEN Out(200, d, [i \in 1..Len(page) |-> Public(e, Loaded(page[i]))], {})
            ELSE Out(500, d, <<>>, {})

\* read_event / read_section / read_schedule / read_venue
Read(d, e, id) ==
    LET found == session_get(d[e], id)
    IN IF found = {} THEN Out(404, d, EmptyFn, {})
       ELSE LET row == CHOOSE r \in found : TRUE
            IN IF ~Loads(row) THEN Out(500, d, EmptyFn, {})
               ELSE LET obj == Loaded(row)
                    IN Out(200, d,
                           [record |-> Public(e, obj),
                            children |-> UNION {Related(d, obj, a) :
                                                a \in ResponseExtra(e) \cap Relationships(e)}],
                           {})

\* model_dump() without exclude_unset: every field of the Update class, the
\* unset ones with their default None
model_dump_all(e, data) ==
    [c \in UpdateModel(e) |-> IF c \in DOMAIN data THEN data[c] ELSE Null(c)]

\* model_dump(exclude_unset=True): only the fields the payload set
model_dump(e, data) == [c \in DOMAIN data \cap UpdateModel(e) |-> data[c]]

\* for key, value in dump.items(): setattr(obj, key, value)
SetAttrs(obj, dump) ==
    [c \in DOMAIN obj |-> IF c \in DOMAIN dump THEN dump[c] ELSE obj[c]]

\* session.add(obj); session.commit() of a modified object: the flush issues
\* UPDATE ... SET <the attributes whose value changed> WHERE id = <loaded id>.
\* err: no row matched (StaleDataError), or a NOT NULL / PRIMARY KEY
\* constraint failed (IntegrityError); the transaction is rolled back.
FlushUpdate(d, e, obj, obj2) ==
    LET changed == {c \in DOMAIN obj : obj2[c] # obj[c]}
        cur == session_get(d[e], obj["id"])
    IN IF changed = {} THEN [err |-> FALSE, db |-> d]
       ELSE IF cur = {} THEN [err |-> TRUE, db |-> d]
       ELSE LET row == CHOOSE r \in cur : TRUE
                row2 == [c \in DOMAIN row |->
                            IF c \in changed THEN BindCol(c, obj2[c]) ELSE row[c]]
                integrity ==
                    \/ \E c \in changed \cap NotNullCols : obj2[c] = Null(c)
                    \/ "id" \in changed /\ \E r \in d[e] \ {row} : r.id = obj2["id"]
            IN IF integrity THEN [err |-> TRUE, db |-> d]
               ELSE [err |-> FALSE, db |-> [d EXCEPT ![e] = (@ \ {row}) \cup {row2}]]

\* session.refresh(obj); return obj: SELECT the row again by primary key and
\* serialise it; a missing row or a failing result conversion raises
Refresh(d, e, id) ==
    LET cur == session_get(d[e], id)
    IN IF cur = {} \/ \E r \in cur : ~Loads(r) THEN Out(500, d, EmptyFn, {})
       ELSE Out(200, d, Public(e, Loaded(CHOOSE r \in cur : TRUE)), {})

\* update_event / update_section / update_schedule / update_venue
Update(d, e, id, data) ==
    LET found == session_get(d[e], id)
    IN IF found = {} THEN Out(404, d, EmptyFn, {})
       ELSE LET row == CHOOSE r \in found : TRUE
            IN IF ~Loads(row) THEN Out(500, d, EmptyFn, {})
               ELSE LET obj == Loaded(row)
                        obj2 == SetAttrs(obj, model_dump(e, data))
                        flush == FlushUpdate(d, e, obj, obj2)
                    IN IF flush.err THEN Out(500, d, EmptyFn, {})
                       ELSE Refresh(flush.db, e, obj2["id"])

\* the one-to-many relationship of a table: its child rows
\* (Section.events, Schedule.sections)
Children(d, e, id) ==
    CASE e = "Section" -> {r \in d["Event"] : r.section_id = id}
      [] e = "Schedule" -> {r \in d["Section"] : r.schedule_id = id}
      [] OTHER -> {}

ChildTable(e) == IF e = "Section" THEN "Event" ELSE "Section"
ChildFk(e) == IF e = "Section" THEN "section_id" ELSE "schedule_id"

\* a delete that leaves the child rows to the database (passive_deletes)
OrphanChild_untouched(e, kid) == kid

\* what the flush of session.delete(parent) does to a child row: the
\* relationship has no delete cascade, so the foreign key is set to NULL
OrphanChild(e, kid) == [kid EXCEPT ![ChildFk(e)] = NoId]

\* session.delete(obj); session.commit(): the children are loaded and
\* orphaned, then DELETE ... WHERE id = <loaded id>; a DELETE that matches no
\* row only warns
FlushDelete(d, e, obj) ==
    LET kids == Children(d, e, obj["id"])
        d1 == [d EXCEPT ![e] = @ \ session_get(@, obj["id"])]
        d2 == IF kids = {} THEN d1
              ELSE [d1 EXCEPT ![ChildTable(e)] =
                       (@ \ kids) \cup {OrphanChild(e, k) : k \in kids}]
    IN Out(200, d2, EmptyFn, {k.id : k \in kids})

\* a delete handler without the "if not event: raise 404" check
Delete_unchecked(d, e, id) == FlushDelete(d, e, [id |-> id])

\* delete_event / delete_section / delete_schedule / delete_venue
Delete(d, e, id) ==
    LET found == session_get(d[e], id)
    IN IF found = {} THEN Out(404, d, EmptyFn, {})
       ELSE LET row == CHOOSE r \in found : TRUE
            IN IF ~Loads(row) THEN Out(500, d, EmptyFn, {})
               ELSE FlushDelete(d, e, Loaded(row))

\* ----------------------------------------------------------------- actions
Request(op, e, id, data, extra, offset, limit) ==
    [op |-> op, e |-> e, id |-> id, data |-> data, extra |-> extra,
     offset |-> offset, limit |-> limit]

\* the handler runs to its response; the session's transaction is committed
Serve(req, out) ==
    /\ UNCHANGED <<tx, base>>
    /\ db' = out.db
    /\ resp' = [op |-> req.op, e |-> req.e, id |-> req.id, data |-> req.data,
                extra |-> req.extra, offset |-> req.offset, limit |-> req.limit,
                status |-> out.status, body |-> out.body, nullified |-> out.nullified]

CanCreate(e) == TotalRows(db) < MaxRows /\ NextRowid(db[e]) <= MaxId

DoCreate(e) ==
    /\ resp = Idle /\ CanCreate(e)
    /\ \E data \in CreatePayloads(e), extra \in BOOLEAN :
          Serve(Request("Create", e, NoId, data, extra, 0, 0), Create(db, e, data, extra))

DoList(e) ==
    /\ resp = Idle
    /\ \E offset \in Offsets, limit \in Limits :
        Serve(Request("List", e, NoId, EmptyFn, FALSE, offset, limit), List(db, e, offset, limit))

DoRead(e) ==
    /\ resp = Idle
    /\ \E id \in Ids : Serve(Request("Get", e, id, EmptyFn, FALSE, 0, 0), Read(db, e, id))

DoUpdate(e) ==
    /\ resp = Idle
    /\ \E id \in Ids, data \in UpdatePayloads(e) :
        Serve(Request("Update", e, id, data, FALSE, 0, 0), Update(db, e, id, data))

DoDelete(e) ==
    /\ resp = Idle
    /\ \E id \in Ids : Serve(Request("Delete", e, id, EmptyFn, FALSE, 0, 0), Delete(db, e, id))

create_event == DoCreate("Event")
read_events == DoList("Event")
read_event == DoRead("Event")
update_event == DoUpdate("Event")
delete_event == DoDelete("Event")

create_section == DoCreate("Section")
read_sections == DoList("Section")
read_section == DoRead("Section")
update_section == DoUpdate("Section")
delete_section == DoDelete("Section")

create_schedule == DoCreate("Schedule")
read_schedules == DoList("Schedule")
read_schedule == DoRead("Schedule")
update_schedule == DoUpdate("Schedule")
delete_schedule == DoDelete("Schedule")

create_venue == DoCreate("Venue")
read_venues == DoList("Venue")
read_venue == DoRead("Venue")
update_venue == DoUpdate("Venue")
delete_venue == DoDelete("Venue")

\* get_session: the session is closed when the request is over
get_session == resp # Idle /\ resp' = Idle /\ UNCHANGED <<db, tx, base>>

\* ------------------------------------------------- two requests at a time
\* The handlers are plain "def" functions, which FastAPI runs on a thread
\* pool; each request has its own Session on the shared engine
\* (check_same_thread=False). A handler's statements are its steps: the
\* SELECT of session.get, the flush and COMMIT, the SELECT of session.refresh.
Workers == {1, 2}

IdleTx == [pc |-> "idle", op |-> "none", id |-> NoId, data |-> EmptyFn,
           obj |-> EmptyFn, status |-> 0, body |-> EmptyFn]

Busy == \E w \in Workers : tx[w].pc # "idle"

TxRequests ==
    {[op |-> "Update", id |-> id, data |-> data] :
        id \in Ids, data \in UpdatePayloads("Event")}
    \cup {[op |-> "Delete", id |-> id, data |-> EmptyFn] : id \in Ids}

Finish(w, status, body) ==
    tx' = [tx EXCEPT ![w].pc = "done", ![w].status = status, ![w].body = body]

\* two requests on the Event table arrive together
receive ==
    /\ resp = Idle /\ ~Busy
    /\ db["Event"] # {}
    /\ \E r1 \in TxRequests, r2 \in TxRequests :
          tx' = [w \in Workers |->
                    LET r == IF w = 1 THEN r1 ELSE r2
                    IN [IdleTx EXCEPT !.pc = "get", !.op = r.op, !.id = r.id,
                                      !.data = r.data]]
    /\ base' = db
    /\ UNCHANGED <<db, resp>>

\* db_event = session.get(Event, event_id); if not db_event: raise 404
GetStep(w, op) ==
    /\ tx[w].pc = "get" /\ tx[w].op = op
    /\ LET found == session_get(db["Event"], tx[w].id)
       IN IF found = {} THEN Finish(w, 404, EmptyFn)
          ELSE tx' = [tx EXCEPT ![w].pc = "commit",
                                ![w].obj = Loaded(CHOOSE r \in found : TRUE)]
    /\ UNCHANGED <<db, resp, base>>

update_event_get(w) == GetStep(w, "Update")
delete_event_get(w) == GetStep(w, "Delete")

\* setattr loop; session.add(db_event); session.commit()
update_event_commit(w) ==
    /\ tx[w].pc = "commit" /\ tx[w].op = "Update"
    /\ LET obj2 == SetAttrs(tx[w].obj, model_dump("Event", tx[w].data))
           flush == FlushUpdate(db, "Event", tx[w].obj, obj2)
       IN IF flush.err THEN Finish(w, 500, EmptyFn) /\ UNCHANGED db
          ELSE db' = flush.db /\ tx' = [tx EXCEPT ![w].pc = "refresh"]
    /\ UNCHANGED <<resp, base>>

\* session.refresh(db_event); return db_event
update_event_refresh(w) ==
    /\ tx[w].pc = "refresh" /\ tx[w].op = "Update"
    /\ LET out == Refresh(db, "Event", tx[w].obj["id"])
       IN Finish(w, out.status, out.body)
    /\ UNCHANGED <<db, resp, base>>

\* session.delete(event); session.commit(); return {"ok": True}
delete_event_commit(w) ==
    /\ tx[w].pc = "commit" /\ tx[w].op = "Delete"
    /\ LET out == FlushDelete(db, "Event", tx[w].obj)
       IN db' = out.db /\ Finish(w, out.status, out.body)
    /\ UNCHANGED <<resp, base>>

\* both responses are sent and both sessions closed
release ==
    /\ \A w \in Workers : tx[w].pc = "done"
    /\ tx' = [w \in Workers |-> IdleTx]
    /\ UNCHANGED <<db, resp, base>>

\* create_event, run on its own
create_event_alone ==
    /\ resp = Idle /\ ~Busy
    /\ CanCreate("Event")
    /\ \E data \in CreatePayloads("Event") :
          db' = Create(db, "Event", data, FALSE).db
    /\ UNCHANGED <<resp, tx, base>>

\* create_db_and_tables at startup: drop_all, create_all
Init ==
    /\ db = [e \in Entities |-> {}]
    /\ resp = Idle
    /\ tx = [w \in Workers |-> IdleTx]
    /\ base = db

Next ==
    \/ create_event \/ read_events \/ read_event \/ update_event \/ delete_event
    \/ create_section \/ read_sections \/ read_section \/ update_section \/ delete_section
    \/ create_schedule \/ read_schedules \/ read_schedule \/ update_schedule \/ delete_schedule
    \/ create_venue \/ read_venues \/ read_venue \/ update_venue \/ delete_venue
    \/ get_session

Spec == Init /\ [][Next]_vars

NextTx ==
    \/ create_event_alone
    \/ receive
    \/ \E w \in Workers :
          \/ update_event_get(w) \/ update_event_commit(w) \/ update_event_refresh(w)
          \/ delete_event_get(w) \/ delete_event_commit(w)
    \/ release

SpecTx == Init /\ [][NextTx]_vars

\* ================================================================= claims
Served == resp.op # "idle"
Serving == resp = Idle /\ resp'.op # "idle"

\* the stored rows of table e that a request's id names
Stored(d, e, id) == session_get(d[e], id)

\* C1: every create payload that passes validation, also one that omits an
\* optional field, is answered with success, and a get-by-id of the returned
\* id returns every payload field (the default for an omitted one) and the id.
C1_CreateThenGet ==
    (Served /\ resp.op = "Create" /\ resp.status # 422) =>
        /\ resp.status = 200
        /\ LET got == Read(db, resp.e, resp.body["id"])
           IN /\ got.status = 200
              /\ got.body.record["id"] = resp.body["id"]
              /\ \A c \in Base(resp.e) :
                    got.body.record[c] =
                        IF c \in DOMAIN resp.data THEN resp.data[c] ELSE Default(c)

\* C2: an accepted List returns at most `limit` records (none for a limit
\* below one) and never more than 100.
C2_ListAtMostLimit ==
    (Served /\ resp.op = "List" /\ resp.status = 200) =>
        /\ Len(resp.body) <= (IF resp.limit < 0 THEN 0 ELSE resp.limit)
        /\ Len(resp.body) <= MaxLimit

C3Step ==
    (Serving /\ resp'.op = "Update" /\ resp'.status = 200) =>
        LET e == resp'.e
            data == resp'.data
            old == CHOOSE r \in db[e] : r.id = resp'.id
            newid == IF "id" \in DOMAIN data THEN data["id"] ELSE resp'.id
        IN /\ Stored(db, e, resp'.id) # {}
           /\ \E new \in db'[e] :
                /\ new.id = newid
                /\ \A c \in DOMAIN data : Loaded(new)[c] = data[c]
                /\ \A c \in Table(e) \ DOMAIN data : new[c] = old[c]
                /\ db'[e] \ {new} = db[e] \ {old}
           /\ \A f \in Entities \ {e} : db'[f] = db[f]

\* C3: a successful Update of record i sets exactly the fields present in the
\* payload to the given values; the absent fields of record i and every other
\* record of every table keep their values.
C3_UpdateSetsOnlyGivenFields == [][C3Step]_vars

\* C3 is exercised: a Schedule beside another row, its title alone updated
\* with success, its venue_url kept
C3_Witness ==
    /\ Served /\ resp.op = "Update" /\ resp.status = 200 /\ resp.e = "Schedule"
    /\ DOMAIN resp.data = {"title"}
    /\ resp.body["title"] = resp.data["title"]
    /\ resp.body["venue_url"] \in {HttpUrl(u) : u \in UrlTexts}
    /\ TotalRows(db) >= 2

C4Step ==
    (Serving /\ resp'.op \in {"Get", "Update", "Delete"}
             /\ Stored(db, resp'.e, resp'.id) = {}) =>
        resp'.status = 404 /\ db' = db

C5_GetListsChildren ==
    (Served /\ resp.op = "Get" /\ resp.status = 200) =>
        /\ resp.e = "Section" =>
              resp.body.children =
                  {Public("Event", Loaded(r)) : r \in {x \in db["Event"] : x.section_id = resp.id}}
        /\ resp.e = "Schedule" =>
              resp.body.children =
                  {Public("Section", Loaded(r)) : r \in {x \in db["Section"] : x.schedule_id = resp.id}}

ParentDeleted ==
    Serving /\ resp'.op = "Delete" /\ resp'.status = 200
            /\ resp'.e \in {"Section", "Schedule"}

C6Original ==
    ParentDeleted =>
        \A k \in Children(db, resp'.e, resp'.id) : k \in db'[ChildTable(resp'.e)]

\* C6 as stated: after a successful Delete of a parent every child that
\* referenced it is still stored with its foreign key unchanged.
C6_ChildrenKeepForeignKey == [][C6Original]_vars

C6Amended ==
    ParentDeleted =>
        LET ct == ChildTable(resp'.e)
            fk == ChildFk(resp'.e)
            kids == Children(db, resp'.e, resp'.id)
        IN /\ \A k \in kids :
                \E k2 \in db'[ct] :
                    /\ k2.id = k.id
                    /\ k2[fk] = NoId
                    /\ \A c \in DOMAIN k \ {fk} : k2[c] = k[c]
           /\ db[ct] \ kids \subseteq db'[ct]
           /\ Cardinality(db'[ct]) = Cardinality(db[ct])

\* C6 as amended: after a successful Delete of a parent every child that
\* referenced it is still stored, its other fields unchanged and its foreign
\* key null; no other child row changes.
C6_ChildrenKeptWithNullKey == [][C6Amended]_vars

\* C6 is exercised: a Section deleted whose Event is still stored, orphaned
C6_Witness ==
    /\ Served /\ resp.op = "Delete" /\ resp.status = 200 /\ resp.e = "Section"
    /\ resp.nullified # {}
    /\ \A i \in resp.nullified :
          \E k \in db["Event"] : k.id = i /\ k.section_id = NoId

C7Step ==
    (Serving /\ resp'.op = "Create" /\ resp'.extra) =>
        resp'.status = 422 /\ db' = db

\* C7: a Create payload with an undeclared field is rejected and stores no row.
C7_ExtraFieldRejected == [][C7Step]_vars

C8Step ==
    (Serving /\ resp'.op = "Update"
             /\ \/ \E c \in DOMAIN resp'.data \cap NotNullCols : resp'.data[c] = Null(c)
                \/ /\ "id" \in DOMAIN resp'.data
                   /\ Stored(db, resp'.e, resp'.data["id"]) # {}) =>
        resp'.status \in {200, 404}

\* C8: an Update that sets a required field to null, or a Section's id to one
\* in use, ends in success or NotFound, in no other failure.
C8_OnlyNotFound == [][C8Step]_vars

Apply(d, t) ==
    IF t.op = "Update" THEN Update(d, "Event", t.id, t.data)
    ELSE Delete(d, "Event", t.id)

SerialRun(first, second) ==
    LET o1 == Apply(base, tx[first])
        o2 == Apply(o1.db, tx[second])
    IN /\ tx[first].status = o1.status /\ tx[first].body = o1.body
       /\ tx[second].status = o2.status /\ tx[second].body = o2.body
       /\ db = o2.db

\* C9: two concurrent requests on a record end with the responses and the
\* store of one of their two serial executions.
C9_Serializable ==
    (\A w \in Workers : tx[w].pc = "done") => SerialRun(1, 2) \/ SerialRun(2, 1)

C10Step ==
    /\ (Serving /\ resp'.op = "Update" /\ resp'.status = 200) =>
          resp'.body["id"] = resp'.id /\ Stored(db', resp'.e, resp'.id) # {}
    /\ \A e \in Entities : \A r1, r2 \in db'[e] : r1.id = r2.id => r1 = r2

\* C10: a successful Update of record i returns and stores a record whose id
\* is still i, and ids stay unique within each table.
C10_IdImmutable == [][C10Step]_vars
====
